---- MODULE Spec2Model ----
(***************************************************************************)
(* chista-express: ExpressRestApiBuilder and its request dispatch.         *)
(*                                                                         *)
(* The builder owns an Express application (a stack of layers), a          *)
(* validated configuration and the #built flag.  build() appends the WS    *)
(* routes, the two routers and the terminal error handler to the stack.    *)
(* A request or WS connection walks the stack layer by layer; the session  *)
(* guard, the per-route middlewares, routeHandler, the WS handler and      *)
(* #executeService are translated statement by statement, split at every   *)
(* await.  User callbacks (loadSession, middlewares, the four strategies,  *)
(* run) are the environment: each call returns or throws one of a small    *)
(* set of values, and every call is appended to the request's call log.    *)
(***************************************************************************)
EXTENDS Integers, Sequences, FiniteSets, TLC

VARIABLES config, app, built, lastBuild, req, caller

vars == <<config, app, built, lastBuild, req, caller>>

(***************************************************************************)
(* Bounds                                                                  *)
(***************************************************************************)
MaxAppMiddlewares == 1
MaxRouteMiddlewares == 2

(***************************************************************************)
(* Values                                                                  *)
(***************************************************************************)
Undefined == "undefined"

\* caller: the application code's call into the library outside request
\* dispatch (new ExpressRestApiBuilder, new RestApiError, a wrapped
\* middleware invoked on its own); NoCall while there is none
NoCall == [pc |-> "none"]
NoField == "<absent>"
NoData == [code |-> NoField, message |-> NoField]

Strategies == {"runService", "createService", "extractInput", "mapError"}

\* new RestApiError(data, httpCode): message is data.message when that is a
\* string, else 'API Error'.
RestApiError(data, httpCode) ==
  [kind |-> "RestApiError",
   message |-> IF data.message # NoField THEN data.message ELSE "API Error",
   data |-> data,
   httpCode |-> httpCode]

\* new Error(message)
GenericError(message) ==
  [kind |-> "Error", message |-> message, data |-> NoData, httpCode |-> 0]

\* a thrown value that is not an Error instance (throw 'text'); message holds
\* String(value)
NonErrorValue(text) ==
  [kind |-> "NonError", message |-> text, data |-> NoData, httpCode |-> 0]

\* a thrown object that is not an Error instance but carries a message
\* property (throw { message: 'boom' })
NonErrorObject(message) ==
  [kind |-> "NonErrorObject", message |-> message, data |-> NoData, httpCode |-> 0]

\* body-parser's failure for malformed JSON: a SyntaxError carrying `body`
BodySyntaxError ==
  [kind |-> "SyntaxErrorWithBody", message |-> "Unexpected token", data |-> NoData, httpCode |-> 400]

NoError == [kind |-> "none", message |-> NoField, data |-> NoData, httpCode |-> 0]

\* what user callbacks throw
Thrown ==
  { RestApiError([code |-> "UNAUTHORIZED", message |-> "Unauthorized"], 401),
    RestApiError([code |-> "SERVER_ERROR", message |-> NoField], 500),
    GenericError("Service error"),
    NonErrorValue("plain text"),
    NonErrorObject("boom") }

\* what a mapError configured at `level` returns when it maps
Mapped(level) ==
  IF level = "route"
  THEN RestApiError([code |-> "ROUTE", message |-> "Route-level error"], 422)
  ELSE RestApiError([code |-> "GLOBAL", message |-> "Custom error"], 400)

\* what a mapError throws when it fails itself
MapErrorFailure == GenericError("mapError failed")

Sessions == {"s1", "s2"}
Results == {"v1", "v2"}

(***************************************************************************)
(* Configuration                                                           *)
(***************************************************************************)
Methods == {"GET", "WS"}

\* RouteOptions: which of the four strategies the route overrides and how
\* many middlewares it declares
RouteOptionsSet ==
  {[overrides |-> o, middlewares |-> 0] : o \in SUBSET Strategies}
  \cup {[overrides |-> o, middlewares |-> m] :
          o \in {{}, Strategies}, m \in 1..MaxRouteMiddlewares}

RECURSIVE SetToSeq(_)
SetToSeq(T) ==
  IF T = {} THEN <<>>
  ELSE LET r == CHOOSE x \in T : TRUE IN <<r>> \o SetToSeq(T \ {r})

\* the route table a configuration declares in each group: one route per
\* method and options value, each under its own path
RouteTable == SetToSeq([method : Methods, options : RouteOptionsSet])

\* a route declared without a 4th element
NoOptions == [overrides |-> {}, middlewares |-> 0]

Configs ==
  [runService : BOOLEAN, createService : BOOLEAN, mapError : BOOLEAN,
   extractInput : BOOLEAN, loadSession : BOOLEAN,
   services : {<<>>, RouteTable},
   unauthenticatedServices : {<<>>, RouteTable}]

\* #validateConfig: the two presence checks (every configured callback of a
\* Configs member is a function and every RouteTable entry is well-formed)
validateConfig(c) ==
  IF ~c.runService /\ ~c.createService
  THEN "Either runService or createService is required"
  ELSE IF Len(c.services) > 0 /\ ~c.loadSession
  THEN "loadSession is required when services are defined"
  ELSE "ok"

(***************************************************************************)
(* The Express application                                                 *)
(***************************************************************************)
Layer(kind, group) == [kind |-> kind, group |-> group]

\* #initializeMiddleware: app.use([wrappedJsonParser, jsonErrorHandler])
initializeMiddleware ==
  <<Layer("wrappedJsonParser", "app"), Layer("jsonErrorHandler", "app")>>

\* #registerRoutes: for each non-empty group, #addRoutesToRouter first puts
\* the group's WS routes on the app, then the router is mounted
registerRoutes(c) ==
  (IF Len(c.unauthenticatedServices) > 0
   THEN <<Layer("ws", "unauth"), Layer("router", "unauth")>> ELSE <<>>)
  \o
  (IF Len(c.services) > 0
   THEN <<Layer("ws", "auth"), Layer("router", "auth")>> ELSE <<>>)

CountKind(stack, kind) == Cardinality({k \in 1..Len(stack) : stack[k].kind = kind})

(***************************************************************************)
(* Requests and connections                                                *)
(***************************************************************************)
HttpBodies == {"json", "brokenJson", "tooLarge", "multipart"}

\* body-parser's failure for a body over the limit: not a SyntaxError
PayloadTooLarge ==
  [kind |-> "PayloadTooLargeError", message |-> "request entity too large",
   data |-> NoData, httpCode |-> 413]

\* error instanceof Error
InstanceOfError(error) == error.kind \notin {"NonError", "NonErrorObject"}

\* String(error) of a value that is not an Error instance
StringOf(error) ==
  IF error.kind = "NonErrorObject" THEN "[object Object]" ELSE error.message

\* error instanceof Error ? error.message : String(error)
ErrorMessage(error) ==
  IF InstanceOfError(error) THEN error.message ELSE StringOf(error)

NewRequest(transport, group, target, body) ==
  [pc |-> "idle", transport |-> transport, group |-> group, target |-> target,
   body |-> body, bodyParsed |-> FALSE, idx |-> 0, err |-> NoError,
   session |-> Undefined, mwDone |-> 0,
   calls |-> <<>>, thrownBy |-> "none", thrown |-> NoError, result |-> Undefined,
   res |-> <<>>, errorLog |-> <<>>, rendered |-> <<>>, wsClosed |-> FALSE]

IdleRequest == NewRequest("http", "none", 0, "json")

Terminal == {"done", "wsOpen", "wsClosed", "unhandledRejection"}

Routes(c, group) ==
  IF group = "auth" THEN c.services
  ELSE IF group = "unauth" THEN c.unauthenticatedServices
  ELSE <<>>

RouteOf(r) == Routes(config, r.group)[r.target]

\* one entry of a request's call log
Call(fn, level, k, context, arg, out) ==
  [fn |-> fn, level |-> level, k |-> k, session |-> context.session,
   ws |-> context.ws, arg |-> arg, out |-> out]

NoContext == [session |-> Undefined, ws |-> FALSE]

Called(r, fn, level, k, context, arg, out) ==
  [r EXCEPT !.calls = Append(@, Call(fn, level, k, context, arg, out))]

\* the pending call at the end of the log settles: a promise resolved with a
\* session (loadSession) or a result, or rejected with e
Settled(r, out, session, e) ==
  [r EXCEPT !.calls[Len(r.calls)].out = out,
            !.calls[Len(r.calls)].session = session,
            !.calls[Len(r.calls)].arg = e]

Threw(r, fn, e) == [r EXCEPT !.thrownBy = fn, !.thrown = e]

\* an awaited call rejects with e
RejectedCall(r, fn, e) == Threw(Settled(r, "rejected", r.calls[Len(r.calls)].session, e), fn, e)

\* an awaited run() or runService resolves to v
ResolvedCall(r, v) ==
  [Settled(r, "resolved", r.calls[Len(r.calls)].session, NoError) EXCEPT !.result = v]

\* res.status(status).json(body), and what logger.error received
Respond(r, out) ==
  [r EXCEPT !.pc = "done", !.res = Append(@, out.response),
            !.errorLog = @ \o out.logs]

LogEntry(text, message, data) == [text |-> text, message |-> message, data |-> data]

\* a #handleError that answers with the message property of whatever value
\* carries one
handleErrorAnyMessage(error) ==
  IF error.kind = "RestApiError"
  THEN [logs |-> IF error.httpCode >= 500
                 THEN <<LogEntry("Request error", NoField, error.data)>>
                 ELSE <<>>,
        response |-> [status |-> error.httpCode,
                      body |-> [success |-> FALSE, error |-> error.data]]]
  ELSE [logs |-> <<LogEntry("Request error", ErrorMessage(error), NoData)>>,
        response |-> [status |-> 500,
                      body |-> [success |-> FALSE,
                                error |-> [code |-> NoField,
                                           message |-> IF error.kind # "NonError"
                                                       THEN error.message
                                                       ELSE "Internal server error"]]]]

\* a #handleError that logs a RestApiError only above 500
handleErrorAbove500(error) ==
  IF error.kind = "RestApiError"
  THEN [logs |-> IF error.httpCode > 500
                 THEN <<LogEntry("Request error", NoField, error.data)>>
                 ELSE <<>>,
        response |-> [status |-> error.httpCode,
                      body |-> [success |-> FALSE, error |-> error.data]]]
  ELSE [logs |-> <<LogEntry("Request error", ErrorMessage(error), NoData)>>,
        response |-> [status |-> 500,
                      body |-> [success |-> FALSE,
                                error |-> [code |-> NoField,
                                           message |-> IF InstanceOfError(error)
                                                       THEN error.message
                                                       ELSE "Internal server error"]]]]

\* #handleError(error, res)
handleError(error) ==
  IF error.kind = "RestApiError"
  THEN [logs |-> IF error.httpCode >= 500
                 THEN <<LogEntry("Request error", NoField, error.data)>>
                 ELSE <<>>,
        response |-> [status |-> error.httpCode,
                      body |-> [success |-> FALSE, error |-> error.data]]]
  ELSE [logs |-> <<LogEntry("Request error", ErrorMessage(error), NoData)>>,
        response |-> [status |-> 500,
                      body |-> [success |-> FALSE,
                                error |-> [code |-> NoField,
                                           message |-> IF InstanceOfError(error)
                                                       THEN error.message
                                                       ELSE "Internal server error"]]]]

\* a call of #handleError(error, res) while serving r; rendered keeps the
\* values it was called with
render(r, error) ==
  [Respond(r, handleError(error)) EXCEPT !.rendered = Append(@, error)]

\* Express's default answer when the stack is exhausted
finalhandler(r, e) ==
  Respond(r, [logs |-> <<>>,
              response |-> [status |-> IF e = NoError THEN 404
                                       ELSE IF e.kind \in {"SyntaxErrorWithBody", "PayloadTooLargeError"}
                                       THEN e.httpCode ELSE 500,
                            body |-> [raw |-> "finalhandler"]]])

\* does the layer take a request travelling with error e (NoError: none)?
Handles(layer, r, e) ==
  CASE layer.kind = "wrappedJsonParser" -> e = NoError
    [] layer.kind = "jsonErrorHandler" -> e # NoError
    [] layer.kind = "use" -> e = NoError
    [] layer.kind = "ws" -> e = NoError /\ r.transport = "ws" /\ r.group = layer.group
    [] layer.kind = "router" -> e = NoError /\ r.transport = "http" /\ r.group = layer.group
    [] layer.kind = "errorHandler" -> e # NoError

\* position of a route's handlers inside its router: the session guard of the
\* authenticated router, then the route's middlewares, then routeHandler
EnterRoute(r) ==
  [r EXCEPT !.mwDone = 0,
            !.pc = IF RouteOf(r).options.middlewares > 0
                   THEN "routeMiddleware" ELSE "routeHandler"]

EnterLayer(r, k, e) ==
  LET r1 == [r EXCEPT !.idx = k, !.err = e]
      layer == app[k]
  IN IF layer.kind = "router"
     THEN IF layer.group = "auth" THEN [r1 EXCEPT !.pc = "sessionGuard"]
          ELSE EnterRoute(r1)
     ELSE [r1 EXCEPT !.pc = layer.kind]

\* next(e) called by the layer at r.idx: Express skips to the first later
\* layer that takes the request
next(r, e) ==
  LET S == {k \in (r.idx + 1)..Len(app) : Handles(app[k], r, e)}
  IN IF S = {} THEN finalhandler(r, e)
     ELSE EnterLayer(r, CHOOSE k \in S : \A j \in S : k <= j, e)

\* a request or a WS upgrade arrives
Arrive ==
  /\ req.pc = "idle"
  /\ \/ \E group \in {"auth", "unauth"} :
          \E target \in 1..Len(Routes(config, group)) :
            LET route == Routes(config, group)[target]
            IN IF route.method = "WS"
               THEN req' = next(NewRequest("ws", group, target, "none"), NoError)
               ELSE \E body \in HttpBodies :
                      req' = next(NewRequest("http", group, target, body), NoError)
     \/ \E body \in HttpBodies :
          req' = next(NewRequest("http", "none", 0, body), NoError)
  /\ lastBuild' = "none"
  /\ UNCHANGED <<caller, config, app, built>>

\* wrappedJsonParser (express.json inside)
wrappedJsonParser ==
  /\ req.pc = "wrappedJsonParser"
  /\ req' = IF req.body = "multipart" THEN next(req, NoError)
            ELSE IF req.body = "brokenJson" THEN next(req, BodySyntaxError)
            ELSE IF req.body = "tooLarge" THEN next(req, PayloadTooLarge)
            ELSE next([req EXCEPT !.bodyParsed = (req.body = "json")], NoError)
  /\ lastBuild' = "none"
  /\ UNCHANGED <<caller, config, app, built>>

\* a jsonErrorHandler that hands every error on
jsonErrorHandlerPassing ==
  /\ req.pc = "jsonErrorHandler"
  /\ req' = next(req, req.err)
  /\ lastBuild' = "none"
  /\ UNCHANGED <<caller, config, app, built>>

\* jsonErrorHandler
jsonErrorHandler ==
  /\ req.pc = "jsonErrorHandler"
  /\ req' = IF req.err.kind = "SyntaxErrorWithBody"
            THEN Respond(req,
                   [logs |-> <<LogEntry("Invalid JSON in request body", req.err.message, NoData)>>,
                    response |-> [status |-> 400,
                                  body |-> [success |-> FALSE,
                                            error |-> [code |-> "BROKEN_JSON",
                                                       message |-> "Please verify your JSON"]]]])
            ELSE next(req, req.err)
  /\ lastBuild' = "none"
  /\ UNCHANGED <<caller, config, app, built>>

\* a middleware the caller attached with getApp().use(): it continues,
\* passes an error, or answers the request itself
useMiddleware ==
  /\ req.pc = "use"
  /\ LET r1(out) == Called(req, "appMiddleware", "app", req.idx, NoContext, NoError, out)
     IN \/ req' = next(r1("next"), NoError)
        \/ \E e \in Thrown : req' = next(Threw(r1("nextError"), "appMiddleware", e), e)
        \/ req' = Respond(r1("responded"),
                          [logs |-> <<>>,
                           response |-> [status |-> 403, body |-> [raw |-> "middleware"]]])
  /\ lastBuild' = "none"
  /\ UNCHANGED <<caller, config, app, built>>

\* a terminal handler that answers every error as a plain 500
errorHandlerMiddlewarePlain ==
  /\ req.pc = "errorHandler"
  /\ req' = render(req, GenericError("Internal server error"))
  /\ lastBuild' = "none"
  /\ UNCHANGED <<caller, config, app, built>>

\* #errorHandlerMiddleware
errorHandlerMiddleware ==
  /\ req.pc = "errorHandler"
  /\ req' = render(req, req.err)
  /\ lastBuild' = "none"
  /\ UNCHANGED <<caller, config, app, built>>

Init ==
  /\ config \in {c \in Configs : validateConfig(c) = "ok"}
  /\ app = initializeMiddleware
  /\ built = FALSE
  /\ lastBuild = "none"
  /\ req = IdleRequest
  /\ caller = NoCall

\* a build() that does not look at #built
buildWithoutGuard ==
  /\ lastBuild = "none"
  /\ built' = TRUE
  /\ app' = app \o registerRoutes(config) \o <<Layer("errorHandler", "app")>>
  /\ lastBuild' = "ok"
  /\ UNCHANGED <<caller, config, req>>

\* a build() that puts the routes in front of what was attached with use()
buildInFront ==
  /\ lastBuild = "none"
  /\ IF built
     THEN /\ lastBuild' = "threw"
          /\ UNCHANGED <<built, app>>
     ELSE /\ built' = TRUE
          /\ app' = initializeMiddleware \o registerRoutes(config)
                      \o SubSeq(app, Len(initializeMiddleware) + 1, Len(app))
                      \o <<Layer("errorHandler", "app")>>
          /\ lastBuild' = "ok"
  /\ UNCHANGED <<caller, config, req>>

\* build(); lastBuild is how the call made in the latest step ended
build ==
  /\ lastBuild = "none"
  /\ IF built
     THEN /\ lastBuild' = "threw"
          /\ UNCHANGED <<built, app>>
     ELSE /\ built' = TRUE
          /\ app' = app \o registerRoutes(config) \o <<Layer("errorHandler", "app")>>
          /\ lastBuild' = "ok"
  /\ UNCHANGED <<caller, config, req>>

\* getApp().use(middleware)
getAppUse ==
  /\ CountKind(app, "use") < MaxAppMiddlewares
  /\ app' = Append(app, Layer("use", "app"))
  /\ lastBuild' = "none"
  /\ UNCHANGED <<caller, config, built, req>>

(***************************************************************************)
(* Dispatch                                                                *)
(***************************************************************************)
\* options?.[name] ?? config[name]: the level the strategy comes from
Resolve(options, name) ==
  IF name \in options.overrides THEN "route"
  ELSE IF config[name] THEN "global"
  ELSE "none"

\* the options routeHandler hands to #executeService
routeHandlerOptions(route) == route.options

\* the options the WS connection handler hands to #executeService: none
\* (#registerWebSocketRoute takes only [method, path, ServiceClass])
webSocketOptions(route) == NoOptions

executeOptions(r) ==
  IF r.transport = "ws" THEN webSocketOptions(RouteOf(r))
  ELSE routeHandlerOptions(RouteOf(r))

\* the catch block of the WS connection handler
webSocketCatch(r, error) ==
  LET logged == [r EXCEPT !.pc = "wsClosed", !.wsClosed = TRUE,
                          !.errorLog = Append(@, LogEntry("WebSocket service error",
                                                          ErrorMessage(error), NoData))]
  IN IF config.mapError
     THEN { [Called(r, "mapError", "global", 0, NoContext, error, "mapped")
               EXCEPT !.pc = "wsClosed", !.wsClosed = TRUE],
            Called(logged, "mapError", "global", 0, NoContext, error, "undefined"),
            [Called(r, "mapError", "global", 0, NoContext, error, "threw")
               EXCEPT !.pc = "unhandledRejection"] }
     ELSE {logged}

\* the promise of #executeService settles in its caller: routeHandler or the
\* WS connection handler
Rejected(r, error) ==
  IF r.transport = "ws" THEN webSocketCatch(r, error)
  ELSE {render(r, error)}

\* a success path that answers without the result
ResolvedWithoutResult(r, result) ==
  IF r.transport = "ws" THEN {[r EXCEPT !.pc = "wsOpen"]}
  ELSE {Respond(r, [logs |-> <<>>,
                    response |-> [status |-> 200,
                                  body |-> [success |-> TRUE, result |-> Undefined]]])}

\* the promise of #executeService resolves in its caller
Resolved(r, result) ==
  IF r.transport = "ws" THEN {[r EXCEPT !.pc = "wsOpen"]}
  ELSE {Respond(r, [logs |-> <<>>,
                    response |-> [status |-> 200,
                                  body |-> [success |-> TRUE, result |-> result]]])}

\* #executeService up to its await
executeService(r, options, session, ws) ==
  LET context == [session |-> session, ws |-> ws]
      runService == Resolve(options, "runService")
  IN IF runService # "none"
     THEN {[Called(r, "runService", runService, 0, context, NoError, "called")
              EXCEPT !.pc = "awaitRunService"]}
     ELSE LET createService == Resolve(options, "createService")
              extractInput == IF Resolve(options, "extractInput") = "none"
                              THEN "default" ELSE Resolve(options, "extractInput")
              created(out) == Called(r, "createService", createService, 0, context, NoError, out)
              extracted(out) == Called(created("returned"), "extractInput", extractInput, 0,
                                       context, NoError, out)
          IN UNION { Rejected(Threw(created("threw"), "createService", e), e) : e \in Thrown }
             \cup (IF extractInput = "default" THEN {}
                   ELSE UNION { Rejected(Threw(extracted("threw"), "extractInput", e), e) : e \in Thrown })
             \cup {[Called(extracted("returned"), "run", "service", 0, context, NoError, "called")
                      EXCEPT !.pc = "awaitRun"]}

\* a catch block that prefers the global mapError to the route's
executeServiceCatchGlobalFirst(r, error) ==
  LET mapError == IF config.mapError THEN "global"
                  ELSE Resolve(executeOptions(r), "mapError")
      mapped(out) == Called(r, "mapError", mapError, 0, NoContext, error, out)
  IN IF mapError # "none"
     THEN Rejected(mapped("mapped"), Mapped(mapError))
          \cup Rejected(mapped("undefined"), error)
          \cup Rejected(mapped("threw"), MapErrorFailure)
     ELSE Rejected(r, error)

\* the catch block around service.run(input) in #executeService
executeServiceCatch(r, error) ==
  LET mapError == Resolve(executeOptions(r), "mapError")
      mapped(out) == Called(r, "mapError", mapError, 0, NoContext, error, out)
  IN IF mapError # "none"
     THEN Rejected(mapped("mapped"), Mapped(mapError))
          \cup Rejected(mapped("undefined"), error)
          \cup Rejected(mapped("threw"), MapErrorFailure)
     ELSE Rejected(r, error)

\* what Express does with the rejected promise of an async middleware:
\* Express 4 leaves it unhandled, Express 5 passes it to next()
RejectedMiddleware(r, error) ==
  {[r EXCEPT !.pc = "unhandledRejection"], next(r, error)}

\* the catch block of the session guard
sessionGuardCatch(r, error) ==
  IF config.mapError
  THEN {render(Called(r, "mapError", "global", 0, NoContext, error, "mapped"),
               Mapped("global")),
        render(Called(r, "mapError", "global", 0, NoContext, error, "undefined"),
               error)}
       \cup RejectedMiddleware(Called(r, "mapError", "global", 0, NoContext, error, "threw"),
                               MapErrorFailure)
  ELSE {render(r, error)}

\* the session guard of the authenticated router, up to its await
sessionGuard ==
  /\ req.pc = "sessionGuard"
  /\ req' = IF config.loadSession
            THEN [Called(req, "loadSession", "global", 0, NoContext, NoError, "called")
                    EXCEPT !.pc = "sessionGuardAwait"]
            ELSE EnterRoute(req)
  /\ lastBuild' = "none"
  /\ UNCHANGED <<caller, config, app, built>>

\* a session guard that does not attach the loaded session to the request
sessionGuardSettleDetached ==
  /\ req.pc = "sessionGuardAwait"
  /\ \/ \E s \in Sessions : req' = EnterRoute(Settled(req, "resolved", s, NoError))
     \/ \E e \in Thrown : req' \in sessionGuardCatch(RejectedCall(req, "loadSession", e), e)
  /\ lastBuild' = "none"
  /\ UNCHANGED <<caller, config, app, built>>

\* loadSession settles in the session guard
sessionGuardSettle ==
  /\ req.pc = "sessionGuardAwait"
  /\ \/ \E s \in Sessions :
          req' = EnterRoute([Settled(req, "resolved", s, NoError) EXCEPT !.session = s])
     \/ \E e \in Thrown : req' \in sessionGuardCatch(RejectedCall(req, "loadSession", e), e)
  /\ lastBuild' = "none"
  /\ UNCHANGED <<caller, config, app, built>>

\* route middlewares that run last to first
routeMiddlewareReversed ==
  /\ req.pc = "routeMiddleware"
  /\ LET n == RouteOf(req).options.middlewares
         k == n - req.mwDone
         r1(out) == Called(req, "middleware", "route", k, NoContext, NoError, out)
     IN \/ req' = [r1("next") EXCEPT !.mwDone = @ + 1,
                                     !.pc = IF k = 1 THEN "routeHandler" ELSE "routeMiddleware"]
        \/ \E e \in Thrown : req' = next(Threw(r1("nextError"), "middleware", e), e)
        \/ req' = Respond(r1("responded"),
                          [logs |-> <<>>,
                           response |-> [status |-> 403, body |-> [raw |-> "middleware"]]])
  /\ lastBuild' = "none"
  /\ UNCHANGED <<caller, config, app, built>>

\* one of the route's declared middlewares: it calls next(), passes an error
\* to next() or answers the request itself
routeMiddleware ==
  /\ req.pc = "routeMiddleware"
  /\ LET k == req.mwDone + 1
         r1(out) == Called(req, "middleware", "route", k, NoContext, NoError, out)
     IN \/ req' = [r1("next") EXCEPT !.mwDone = k,
                                     !.pc = IF k = RouteOf(req).options.middlewares
                                            THEN "routeHandler" ELSE "routeMiddleware"]
        \/ \E e \in Thrown : req' = next(Threw(r1("nextError"), "middleware", e), e)
        \/ req' = Respond(r1("responded"),
                          [logs |-> <<>>,
                           response |-> [status |-> 403, body |-> [raw |-> "middleware"]]])
  /\ lastBuild' = "none"
  /\ UNCHANGED <<caller, config, app, built>>

\* routeHandler, up to the await of #executeService
routeHandler ==
  /\ req.pc = "routeHandler"
  /\ req' \in executeService(req, routeHandlerOptions(RouteOf(req)), req.session, FALSE)
  /\ lastBuild' = "none"
  /\ UNCHANGED <<caller, config, app, built>>

\* runService settles
runServiceSettle ==
  /\ req.pc = "awaitRunService"
  /\ \/ \E v \in Results : req' \in Resolved(ResolvedCall(req, v), v)
     \/ \E e \in Thrown : req' \in Rejected(RejectedCall(req, "runService", e), e)
  /\ lastBuild' = "none"
  /\ UNCHANGED <<caller, config, app, built>>

\* service.run(input) settles
runSettle ==
  /\ req.pc = "awaitRun"
  /\ \/ \E v \in Results : req' \in Resolved(ResolvedCall(req, v), v)
     \/ \E e \in Thrown : req' \in executeServiceCatch(RejectedCall(req, "run", e), e)
  /\ lastBuild' = "none"
  /\ UNCHANGED <<caller, config, app, built>>

\* the WS connection handler, up to its first await
webSocketHandler ==
  /\ req.pc = "ws"
  /\ IF config.loadSession
     THEN req' = [Called(req, "loadSession", "global", 0, NoContext, NoError, "called")
                    EXCEPT !.pc = "wsAwaitSession"]
     ELSE req' \in executeService(req, webSocketOptions(RouteOf(req)), Undefined, TRUE)
  /\ lastBuild' = "none"
  /\ UNCHANGED <<caller, config, app, built>>

\* loadSession settles in the WS connection handler
webSocketSessionSettle ==
  /\ req.pc = "wsAwaitSession"
  /\ \/ \E s \in Sessions :
          req' \in executeService([Settled(req, "resolved", s, NoError) EXCEPT !.session = s],
                                  webSocketOptions(RouteOf(req)), s, TRUE)
     \/ \E e \in Thrown : req' \in webSocketCatch(RejectedCall(req, "loadSession", e), e)
  /\ lastBuild' = "none"
  /\ UNCHANGED <<caller, config, app, built>>

\* the request or connection is over: its record is dropped
Finish ==
  /\ req.pc \in Terminal
  /\ req' = IdleRequest
  /\ lastBuild' = "none"
  /\ UNCHANGED <<caller, config, app, built>>

Next ==
  \/ build
  \/ getAppUse
  \/ Arrive
  \/ wrappedJsonParser
  \/ jsonErrorHandler
  \/ useMiddleware
  \/ errorHandlerMiddleware
  \/ sessionGuard
  \/ sessionGuardSettle
  \/ routeMiddleware
  \/ routeHandler
  \/ runServiceSettle
  \/ runSettle
  \/ webSocketHandler
  \/ webSocketSessionSettle
  \/ Finish

Spec == Init /\ [][Next]_vars

(***************************************************************************)
(* Default input extraction                                                *)
(*                                                                         *)
(* SpecInput applies #defaultExtractInput to one request.  The request     *)
(* carries query, params and body as objects over FieldNames (each value   *)
(* names the object it comes from), the user-agent header, the socket's    *)
(* remote address and what an upload middleware may have attached.         *)
(***************************************************************************)
FieldNames == {"id", "ws", "userAgent", "clientIp", "file", "files"}

\* names a route pattern binds in request.params
ParamNames == {"id", "file"}

\* an object whose keys are K, every value being v
ObjectOf(K, v) == [k \in K |-> v]

\* { ...a, ...b }
Spread(a, b) ==
  [k \in DOMAIN a \cup DOMAIN b |-> IF k \in DOMAIN b THEN b[k] ELSE a[k]]

\* the requests #defaultExtractInput is applied to; a property the request
\* does not have reads as undefined
InputRequests ==
  [pc : {"extractInput"},
   query : {ObjectOf(K, "query") : K \in SUBSET FieldNames},
   params : {ObjectOf(K, "params") : K \in SUBSET ParamNames},
   body : {ObjectOf(K, "body") : K \in SUBSET FieldNames},
   ws : {Undefined, "socket"},
   userAgent : {"agent"},
   remoteAddress : {"address"},
   file : {Undefined, "upload"},
   files : {Undefined, "uploads"},
   input : {ObjectOf({}, Undefined)}]

\* #defaultExtractInput(context); request.ws stands for context.ws
defaultExtractInput(request) ==
  Spread(Spread(Spread(request.query, request.params), request.body),
         [ws |-> request.ws,
          userAgent |-> request.userAgent,
          clientIp |-> request.remoteAddress,
          file |-> request.file,
          files |-> request.files])

InitInput ==
  /\ config = [runService |-> FALSE, createService |-> TRUE, mapError |-> FALSE,
               extractInput |-> FALSE, loadSession |-> FALSE,
               services |-> <<>>, unauthenticatedServices |-> <<>>]
  /\ app = initializeMiddleware
  /\ built = FALSE
  /\ lastBuild = "none"
  /\ req \in InputRequests
  /\ caller = NoCall

\* const input = extractInput(context) with the built-in default
extractDefaultInput ==
  /\ req.pc = "extractInput"
  /\ req' = [req EXCEPT !.pc = "run", !.input = defaultExtractInput(req)]
  /\ UNCHANGED <<caller, config, app, built, lastBuild>>

NextInput == extractDefaultInput

SpecInput == InitInput /\ [][NextInput]_vars

(***************************************************************************)
(* Properties                                                              *)
(***************************************************************************)
CallIndexes(r, fn) == {k \in 1..Len(r.calls) : r.calls[k].fn = fn}

Declared(r) == r.group \in {"auth", "unauth"}

\* calls made once the request has reached its route
RouteStage == {"middleware", "runService", "createService", "extractInput", "run"}

\* the level the precedence rule names for a strategy of a route: the route's
\* own override, else the global value, else the built-in default
Preferred(route, name) ==
  IF name \in route.options.overrides THEN "route"
  ELSE IF config[name] THEN "global"
  ELSE IF name = "extractInput" THEN "default"
  ELSE "none"

IsEnvelope(body) ==
  \/ DOMAIN body = {"success", "result"} /\ body.success
  \/ DOMAIN body = {"success", "error"} /\ ~body.success

IsErrorEnvelope(body) == DOMAIN body = {"success", "error"} /\ ~body.success

\* the request was answered by one of its middlewares, not by the builder
AnsweredByMiddleware(r) ==
  \E k \in 1..Len(r.res) : r.res[k].body = [raw |-> "middleware"]

\* C1: loadSession is never invoked while serving a request or a connection
\* to a route declared in unauthenticatedServices, HTTP or WS.
C1_NoSessionLoadingForUnauthenticated ==
  req.group = "unauth" => CallIndexes(req, "loadSession") = {}

\* C2: every invocation of one of the four strategies for a route is of the
\* route-level override when the route declares one, else of the global value
\* (else, for extractInput, of the built-in default).
C2_RouteOverridePrecedence ==
  Declared(req) =>
    \A k \in 1..Len(req.calls) :
      req.calls[k].fn \in Strategies =>
        req.calls[k].level = Preferred(RouteOf(req), req.calls[k].fn)

\* C3: a WS route loads the session only if it is declared in services, and
\* then resolves its strategies as an HTTP route does (route-level overrides
\* first), passing the connection handle as context.ws.
C3_WebSocketAsHttp ==
  req.transport = "ws" =>
    /\ CallIndexes(req, "loadSession") # {} => req.group = "auth"
    /\ \A k \in 1..Len(req.calls) :
         /\ req.calls[k].fn \in Strategies =>
              req.calls[k].level = Preferred(RouteOf(req), req.calls[k].fn)
         /\ req.calls[k].fn \in {"runService", "createService", "extractInput"} =>
              req.calls[k].ws

\* C4: an HTTP request that reached a declared route and whose callbacks all
\* returned, threw or continued has, once its handling is over, exactly one
\* response, and that response is one of the two envelopes.
C4_AlwaysOneEnvelope ==
  ( /\ req.transport = "http"
    /\ \E k \in 1..Len(req.calls) : req.calls[k].fn \in RouteStage \cup {"loadSession"}
    /\ req.pc \in Terminal
    /\ ~AnsweredByMiddleware(req) )
  => /\ Len(req.res) = 1
     /\ IsEnvelope(req.res[1].body)

\* C5: when a runService (route-level or global) applies to a route, no
\* createService and no extractInput is invoked, no mapError is invoked on what
\* runService threw, the resolved value is the result and the thrown value is
\* rendered as it is.
C5_RunServiceAlone ==
  ( /\ Declared(req)
    /\ Preferred(RouteOf(req), "runService") # "none" )
  => /\ CallIndexes(req, "createService") = {}
     /\ CallIndexes(req, "extractInput") = {}
     /\ CallIndexes(req, "run") = {}
     /\ req.thrownBy = "runService" =>
          /\ \A k \in CallIndexes(req, "mapError") : req.calls[k].arg # req.thrown
          /\ req.transport = "http" => req.res = <<handleError(req.thrown).response>>

\* C6: the first build() succeeds, every later build() throws and changes
\* nothing, so the routes and the terminal error handler are installed at most
\* once.
C6_BuildOnlyOnce ==
  /\ [][lastBuild' # "none" =>
          IF built THEN lastBuild' = "threw" /\ app' = app /\ built'
          ELSE lastBuild' = "ok" /\ built' /\ CountKind(app', "errorHandler") = 1]_vars
  /\ [][built => built']_vars
  /\ [](/\ CountKind(app, "errorHandler") <= 1
        /\ \A g \in {"auth", "unauth"} :
             Cardinality({k \in 1..Len(app) : app[k] = Layer("router", g)}) <= 1
        /\ built <=> CountKind(app, "errorHandler") = 1)

\* a second build() threw after middleware was attached and a request answered
C6_Witness ==
  /\ lastBuild = "threw"
  /\ CountKind(app, "use") > 0
  /\ req.pc = "done"
  /\ Declared(req)

\* C7: on an HTTP route of services loadSession is invoked exactly once,
\* before every middleware of the route and every strategy, and the value it
\* resolved to is the session of the context the strategies receive.
C7_SessionLoadedOnceFirst ==
  (req.transport = "http" /\ req.group = "auth") =>
    LET loads == CallIndexes(req, "loadSession")
        staged == {k \in 1..Len(req.calls) : req.calls[k].fn \in RouteStage}
    IN /\ Cardinality(loads) <= 1
       /\ (staged # {} \/ req.pc \in {"routeMiddleware", "routeHandler"}) =>
            /\ Cardinality(loads) = 1
            /\ \A l \in loads :
                 /\ req.calls[l].out = "resolved"
                 /\ req.calls[l].session \in Sessions
                 /\ \A k \in staged :
                      /\ l < k
                      /\ req.calls[k].fn \in {"runService", "createService", "extractInput"} =>
                           req.calls[k].session = req.calls[l].session

\* a strategy has received the session loadSession resolved to, after a route
\* middleware ran
C7_Witness ==
  /\ req.transport = "http"
  /\ req.group = "auth"
  /\ CallIndexes(req, "middleware") # {}
  /\ \E k \in CallIndexes(req, "createService") : req.calls[k].session = "s2"

\* C8: when loadSession throws on an authenticated HTTP route, no middleware
\* of the route, no strategy and no run() is invoked, and the request ends
\* with an error envelope (the thrown RestApiError's status and data when no
\* mapping replaces it).
C8_SessionFailureEndsRequest ==
  (req.transport = "http" /\ req.group = "auth" /\ req.thrownBy = "loadSession") =>
    /\ \A k \in 1..Len(req.calls) : req.calls[k].fn \notin RouteStage
    /\ req.pc \in Terminal =>
         /\ Len(req.res) = 1
         /\ IsErrorEnvelope(req.res[1].body)
         /\ ( /\ req.thrown.kind = "RestApiError"
              /\ \A k \in CallIndexes(req, "mapError") : req.calls[k].out = "undefined" )
            => req.res[1] = [status |-> req.thrown.httpCode,
                             body |-> [success |-> FALSE, error |-> req.thrown.data]]

\* C9: after any failure of loadSession or of the execution on a WS route the
\* connection is closed.
C9_WebSocketClosedOnFailure ==
  ( /\ req.transport = "ws"
    /\ req.thrownBy \in {"loadSession", "runService", "createService", "extractInput", "run"} )
  => req.wsClosed

\* C10: in createService mode, when run() rejects with E the applicable
\* mapError is called with E; a returned RestApiError R is rendered (status
\* R.httpCode, error R.data) instead of E, and on undefined E is rendered as
\* without any mapError.
C10_MapErrorOnRunFailure ==
  (req.transport = "http" /\ req.thrownBy = "run" /\ req.pc = "done") =>
    LET level == Preferred(RouteOf(req), "mapError")
        maps == CallIndexes(req, "mapError")
    IN IF level = "none"
       THEN maps = {} /\ req.res = <<handleError(req.thrown).response>>
       ELSE /\ Cardinality(maps) = 1
            /\ \A k \in maps :
                 /\ req.calls[k].level = level
                 /\ req.calls[k].arg = req.thrown
                 /\ req.calls[k].out = "mapped" =>
                      req.res = <<[status |-> Mapped(level).httpCode,
                                   body |-> [success |-> FALSE, error |-> Mapped(level).data]]>>
                 /\ req.calls[k].out = "undefined" =>
                      /\ req.res = <<handleError(req.thrown).response>>
                      /\ req.errorLog = handleError(req.thrown).logs

\* a route-level mapError has replaced what run() threw while a global one is
\* configured too
C10_Witness ==
  /\ req.transport = "http"
  /\ req.thrownBy = "run"
  /\ req.pc = "done"
  /\ config.mapError
  /\ \E k \in CallIndexes(req, "mapError") :
       req.calls[k].level = "route" /\ req.calls[k].out = "mapped"
  /\ req.res[1].status = 422
\* C11: a RestApiError handed to #handleError is answered with its httpCode
\* and { success: false, error: its data }, and logger.error is called for it
\* if and only if its httpCode is at least 500.
C11_RestApiErrorRendering ==
  /\ Len(req.rendered) <= 1
  /\ \A k \in 1..Len(req.rendered) :
       LET e == req.rendered[k]
       IN e.kind = "RestApiError" =>
            /\ req.res = <<[status |-> e.httpCode,
                            body |-> [success |-> FALSE, error |-> e.data]]>>
            /\ req.errorLog # <<>> <=> e.httpCode >= 500
            /\ Len(req.errorLog) <= 1

\* a RestApiError with httpCode 500 passed on by a route middleware has been
\* rendered by the terminal handler and logged
C11_Witness ==
  /\ req.thrownBy = "middleware"
  /\ req.rendered # <<>>
  /\ req.rendered[1].kind = "RestApiError"
  /\ req.rendered[1].httpCode = 500
  /\ req.res = <<[status |-> 500,
                  body |-> [success |-> FALSE,
                            error |-> [code |-> "SERVER_ERROR", message |-> NoField]]]>>
  /\ Len(req.errorLog) = 1

\* does the thrown value carry a message: every Error does, a thrown object
\* may, a thrown string does not
HasMessage(error) == error.kind # "NonError"

\* C12: a value handed to #handleError that is not a RestApiError is answered
\* with status 500 and { success: false, error: { message: M } }, M being the
\* value's message, or "Internal server error" when it has none, and
\* logger.error is called exactly once for it.
C12_OtherValuesRendering ==
  \A k \in 1..Len(req.rendered) :
    LET e == req.rendered[k]
    IN e.kind # "RestApiError" =>
         /\ req.res = <<[status |-> 500,
                         body |-> [success |-> FALSE,
                                   error |-> [code |-> NoField,
                                              message |-> IF HasMessage(e) THEN e.message
                                                          ELSE "Internal server error"]]]>>
         /\ Len(req.errorLog) = 1

\* C12 as amended: M is the value's message when the value is an Error
\* instance and "Internal server error" otherwise, also for a thrown object
\* that carries a message property; logger.error is called exactly once.
C12_MessageOfErrorInstances ==
  \A k \in 1..Len(req.rendered) :
    LET e == req.rendered[k]
    IN e.kind # "RestApiError" =>
         /\ req.res = <<[status |-> 500,
                         body |-> [success |-> FALSE,
                                   error |-> [code |-> NoField,
                                              message |-> IF e.kind \in {"NonError", "NonErrorObject"}
                                                          THEN "Internal server error"
                                                          ELSE e.message]]]>>
         /\ Len(req.errorLog) = 1

\* a thrown object carrying a message has been rendered by routeHandler
C12_Witness ==
  /\ req.thrownBy = "run"
  /\ req.rendered = <<NonErrorObject("boom")>>
  /\ Len(req.res) = 1
  /\ req.res[1].status = 500
  /\ req.res[1].body.error.message = "Internal server error"
  /\ Len(req.errorLog) = 1

\* C13: when run() or runService resolves to V the HTTP response is 200 with
\* { success: true, result: V } and nothing else is sent.
C13_SuccessRoundTrip ==
  ( /\ req.transport = "http"
    /\ req.calls # <<>>
    /\ req.calls[Len(req.calls)].fn \in {"run", "runService"}
    /\ req.calls[Len(req.calls)].out = "resolved" )
  => /\ req.pc = "done"
     /\ req.res = <<[status |-> 200, body |-> [success |-> TRUE, result |-> req.result]]>>
     /\ req.rendered = <<>>

\* run() resolved to the second value on an authenticated route and the
\* response carries it
C13_Witness ==
  /\ req.transport = "http"
  /\ req.group = "auth"
  /\ req.calls # <<>>
  /\ req.calls[Len(req.calls)].fn = "run"
  /\ req.calls[Len(req.calls)].out = "resolved"
  /\ req.result = "v2"
  /\ req.res = <<[status |-> 200, body |-> [success |-> TRUE, result |-> "v2"]]>>
\* the handler of the route: #executeService's calls
HandlerStage == {"runService", "createService", "extractInput", "run"}

ServiceStage == RouteStage \cup {"loadSession"}

\* position of the terminal error handler in the stack (0: not built)
BuiltAt ==
  IF \E k \in 1..Len(app) : app[k].kind = "errorHandler"
  THEN CHOOSE k \in 1..Len(app) : app[k].kind = "errorHandler"
  ELSE 0

\* C15: every step keeps the layers already in the stack in place (build()
\* appends at its call-time position); a request served by a service route
\* has first gone through every middleware attached before build(), and no
\* middleware attached after build() runs for a request to a declared route.
C15_RegistrationOrder ==
  /\ [][Len(app') >= Len(app) /\ SubSeq(app', 1, Len(app)) = app]_vars
  /\ [](Declared(req) =>
          LET served == {i \in 1..Len(req.calls) : req.calls[i].fn \in ServiceStage}
              use(k) == {i \in CallIndexes(req, "appMiddleware") : req.calls[i].k = k}
          IN /\ \A k \in 1..Len(app) :
                  (app[k].kind = "use" /\ BuiltAt > 0 /\ k > BuiltAt) => use(k) = {}
             /\ served # {} =>
                  \A k \in 1..Len(app) :
                    (app[k].kind = "use" /\ k < BuiltAt) =>
                      /\ Cardinality(use(k)) = 1
                      /\ \A i \in use(k) : \A j \in served : i < j)

\* a request went through a middleware attached before build() and was then
\* served by the handler
C15_Witness ==
  /\ Declared(req)
  /\ BuiltAt > 0
  /\ \E k \in 1..Len(app) : app[k].kind = "use" /\ k < BuiltAt
  /\ CallIndexes(req, "appMiddleware") # {}
  /\ CallIndexes(req, "run") # {}
  /\ req.pc = "done"
\* the latest step appended a middleware call that passed an error to next()
PassedError(r, r2) ==
  /\ Len(r2.calls) = Len(r.calls) + 1
  /\ r2.calls[Len(r2.calls)].fn \in {"appMiddleware", "middleware"}
  /\ r2.calls[Len(r2.calls)].out = "nextError"

\* C16: on a built app an error passed on by a middleware attached before
\* build(), by a route middleware or by the body-parsing adapter (which hands
\* on every non-parse error unchanged and answers nothing) reaches the
\* terminal handler, which renders it by the rules of #handleError.
C16_TerminalHandlerRendersEscapes ==
  /\ [][(req.transport = "http" /\ BuiltAt > req.idx /\ req' # req) =>
          /\ PassedError(req, req') =>
               req'.pc = "errorHandler" /\ req'.err = req'.thrown /\ req'.res = req.res
          /\ (req.pc = "jsonErrorHandler" /\ req.err.kind # "SyntaxErrorWithBody") =>
               /\ req'.pc = "errorHandler" /\ req'.err = req.err
               /\ req'.res = req.res /\ req'.errorLog = req.errorLog]_vars
  /\ []((req.transport = "http" /\ req.pc = "done" /\ req.idx > 0 /\ req.idx = BuiltAt) =>
          /\ req.rendered = <<req.err>>
          /\ req.res = <<handleError(req.err).response>>
          /\ req.errorLog = handleError(req.err).logs)

\* a RestApiError 401 passed on by a middleware attached before build() has
\* been rendered by the terminal handler
C16_Witness ==
  /\ req.transport = "http"
  /\ req.pc = "done"
  /\ req.idx > 0
  /\ req.idx = BuiltAt
  /\ req.thrownBy = "appMiddleware"
  /\ req.thrown.httpCode = 401
  /\ req.res = <<[status |-> 401,
                  body |-> [success |-> FALSE,
                            error |-> [code |-> "UNAUTHORIZED", message |-> "Unauthorized"]]]>>
\* C17: a request with a malformed JSON body is answered 400 with
\* { success: false, error: { code: "BROKEN_JSON", message: "Please verify
\* your JSON" } }, the failure is logged once at error level, and no session
\* loading, middleware or handler call is made for it.
C17_BrokenJson ==
  (req.transport = "http" /\ req.body = "brokenJson" /\ req.pc # "idle") =>
    /\ req.calls = <<>>
    /\ req.rendered = <<>>
    /\ req.pc \in {"wrappedJsonParser", "jsonErrorHandler", "done"}
    /\ req.pc = "done" =>
         /\ req.res = <<[status |-> 400,
                         body |-> [success |-> FALSE,
                                   error |-> [code |-> "BROKEN_JSON",
                                              message |-> "Please verify your JSON"]]]>>
         /\ Len(req.errorLog) = 1
         /\ req.errorLog[1].text = "Invalid JSON in request body"

\* a malformed body sent to a route of services on a built app with a
\* middleware attached has been answered
C17_Witness ==
  /\ req.transport = "http"
  /\ req.body = "brokenJson"
  /\ req.group = "auth"
  /\ built
  /\ CountKind(app, "use") > 0
  /\ req.pc = "done"
  /\ Len(req.res) = 1
  /\ req.res[1].status = 400
\* the value the merge of query, then params, then body gives a key
Merged(request, k) ==
  IF k \in DOMAIN request.body THEN request.body[k]
  ELSE IF k \in DOMAIN request.params THEN request.params[k]
  ELSE request.query[k]

Attached == {"ws", "userAgent", "clientIp"}

\* C18: the default input holds every key of query, params and body with the
\* body's value before the path parameter's before the query's, except that
\* ws, userAgent and clientIp are always the connection handle, the
\* user-agent header and the socket's remote address.
C18_DefaultInputMerge ==
  req.pc = "run" =>
    /\ DOMAIN req.query \cup DOMAIN req.params \cup DOMAIN req.body \cup Attached
         \subseteq DOMAIN req.input
    /\ req.input.ws = req.ws
    /\ req.input.userAgent = req.userAgent
    /\ req.input.clientIp = req.remoteAddress
    /\ \A k \in (DOMAIN req.query \cup DOMAIN req.params \cup DOMAIN req.body) \ Attached :
         req.input[k] = Merged(req, k)

\* C19: file and files are attached only when the request has them; without
\* them the default extraction adds no such key, and a field named file or
\* files of query, params or body keeps its value.
C19_FileOnlyIfPresent ==
  req.pc = "run" =>
    /\ req.file # Undefined => req.input.file = req.file
    /\ req.files # Undefined => req.input.files = req.files
    /\ req.file = Undefined =>
         IF "file" \in DOMAIN req.query \cup DOMAIN req.params \cup DOMAIN req.body
         THEN req.input.file = Merged(req, "file")
         ELSE "file" \notin DOMAIN req.input
    /\ req.files = Undefined =>
         IF "files" \in DOMAIN req.query \cup DOMAIN req.body
         THEN req.input.files = Merged(req, "files")
         ELSE "files" \notin DOMAIN req.input
\* C20: every failure of loadSession or of the execution on a WS route is
\* logged once at error level, with the error's message and nothing else of
\* the error.
C20_WebSocketFailureLogged ==
  ( /\ req.transport = "ws"
    /\ req.thrownBy \in ServiceStage
    /\ req.pc \in Terminal )
  => /\ Len(req.errorLog) = 1
     /\ req.errorLog[1].text = "WebSocket service error"
     /\ req.errorLog[1].data = NoData

(***************************************************************************)
(* Construction-time validation                                            *)
(*                                                                         *)
(* SpecValidate applies the constructor to one configuration object as     *)
(* the caller wrote it.  A JavaScript value is a record: type is what      *)
(* typeof yields, kind tells the values of one type apart, chars are the   *)
(* pieces of a string, items the elements of an array and props the own    *)
(* properties of an object.                                                *)
(***************************************************************************)
MaxRoutes == 2

NoProps == [k \in {} |-> Undefined]

Js(type, kind, chars, items, props) ==
  [type |-> type, kind |-> kind, chars |-> chars, items |-> items, props |-> props]

undefinedValue == Js("undefined", "undefined", <<>>, <<>>, NoProps)
nullValue == Js("object", "null", <<>>, <<>>, NoProps)
numberValue == Js("number", "number", <<>>, <<>>, NoProps)
stringValue(chars) == Js("string", "string", chars, <<>>, NoProps)
\* class X { ... } and function X() { ... }: usable with new
classValue == Js("function", "class", <<>>, <<>>, NoProps)
functionValue == Js("function", "function", <<>>, <<>>, NoProps)
\* () => { ... }: typeof 'function', but new throws a TypeError
arrowFunction == Js("function", "arrow", <<>>, <<>>, NoProps)
arrayValue(items) == Js("object", "array", <<>>, items, NoProps)
objectValue(props) == Js("object", "object", <<>>, <<>>, props)

typeof(value) == value.type

\* !value is false
Truthy(value) ==
  /\ value.kind \notin {"undefined", "null"}
  /\ ~(value.kind = "string" /\ value.chars = <<>>)

\* object.name
Get(object, name) ==
  IF name \in DOMAIN object.props THEN object.props[name] ELSE undefinedValue

\* path.startsWith('/')
startsWith(string, piece) == Len(string.chars) > 0 /\ string.chars[1] = piece

\* static #VALID_HTTP_METHODS
VALID_HTTP_METHODS == <<"GET", "POST", "PUT", "DELETE", "PATCH", "WS">>

\* #VALID_HTTP_METHODS.includes(method)
includesMethod(method) ==
  \E k \in 1..Len(VALID_HTTP_METHODS) : method.chars = <<VALID_HTTP_METHODS[k]>>

\* what a call that validates returns or throws; index is -1 and array is
\* "none" for an error that is not about a route entry
NoThrow == [message |-> "ok", array |-> "none", index |-> -1, name |-> "none", got |-> "none"]

ConfigError(message) ==
  [message |-> message, array |-> "none", index |-> -1, name |-> "none", got |-> "none"]

\* `${name} must be a function, got ${typeof value}`
FunctionError(array, index, name, value) ==
  [message |-> "must be a function", array |-> array, index |-> index,
   name |-> name, got |-> typeof(value)]

\* `${arrayName}[${i}]: ...`
RouteError(array, index, message, value) ==
  [message |-> message, array |-> array, index |-> index, name |-> "none",
   got |-> typeof(value)]

\* the first error of a sequence of checks, as a throw ends the method
FirstThrow(checks) ==
  LET S == {k \in 1..Len(checks) : checks[k] # NoThrow}
  IN IF S = {} THEN NoThrow ELSE checks[CHOOSE k \in S : \A j \in S : k <= j]

\* #validateFunction(value, name)
validateFunction(value, array, index, name) ==
  IF value # undefinedValue /\ typeof(value) # "function"
  THEN FunctionError(array, index, name, value)
  ELSE NoThrow

\* const [method, path, ServiceClass, options] = route
Item(route, k) == IF k <= Len(route.items) THEN route.items[k] ELSE undefinedValue

OverrideNames == <<"runService", "createService", "mapError", "extractInput">>

\* an options block that takes every value whose typeof is 'object'
validateOptionsNoNull(options, arrayName, i) ==
  IF options = undefinedValue THEN NoThrow
  ELSE FirstThrow(
    <<IF typeof(options) # "object"
      THEN RouteError(arrayName, i, "Route options must be an object", options)
      ELSE NoThrow,
      IF Get(options, "middlewares") # undefinedValue
         /\ Get(options, "middlewares").kind # "array"
      THEN RouteError(arrayName, i, "options.middlewares must be an array",
                      Get(options, "middlewares"))
      ELSE NoThrow>>
    \o [k \in 1..Len(OverrideNames) |->
          validateFunction(Get(options, OverrideNames[k]), arrayName, i,
                           OverrideNames[k])])

\* the options block of #validateRoutes
validateOptions(options, arrayName, i) ==
  IF options = undefinedValue THEN NoThrow
  ELSE FirstThrow(
    <<IF typeof(options) # "object" \/ options = nullValue
      THEN RouteError(arrayName, i, "Route options must be an object", options)
      ELSE NoThrow,
      IF Get(options, "middlewares") # undefinedValue
         /\ Get(options, "middlewares").kind # "array"
      THEN RouteError(arrayName, i, "options.middlewares must be an array",
                      Get(options, "middlewares"))
      ELSE NoThrow>>
    \o [k \in 1..Len(OverrideNames) |->
          validateFunction(Get(options, OverrideNames[k]), arrayName, i,
                           OverrideNames[k])])

\* the body of the loop of #validateRoutes for routes[i]
validateRoute(route, arrayName, i) ==
  FirstThrow(
    <<IF route.kind # "array" \/ Len(route.items) < 3 \/ Len(route.items) > 4
      THEN RouteError(arrayName, i, "Route must be [method, path, ServiceClass] or [method, path, ServiceClass, options]", route)
      ELSE NoThrow,
      IF typeof(Item(route, 1)) # "string" \/ ~includesMethod(Item(route, 1))
      THEN RouteError(arrayName, i, "Invalid HTTP method", Item(route, 1))
      ELSE NoThrow,
      IF typeof(Item(route, 2)) # "string" \/ ~startsWith(Item(route, 2), "/")
      THEN RouteError(arrayName, i, "Path must be a string starting with /", Item(route, 2))
      ELSE NoThrow,
      IF typeof(Item(route, 3)) # "function"
      THEN RouteError(arrayName, i, "ServiceClass must be a class/constructor function",
                      Item(route, 3))
      ELSE NoThrow,
      validateOptions(Item(route, 4), arrayName, i)>>)

RECURSIVE validateRoutesFrom(_, _, _)
\* the loop of #validateRoutes from index i on
validateRoutesFrom(routes, arrayName, i) ==
  IF i >= Len(routes.items) THEN NoThrow
  ELSE LET thrown == validateRoute(routes.items[i + 1], arrayName, i)
       IN IF thrown # NoThrow THEN thrown
          ELSE validateRoutesFrom(routes, arrayName, i + 1)

\* a loop that runs from the last entry down to the first
validateRoutesLastFirst(routes, arrayName) ==
  LET S == {i \in 0..(Len(routes.items) - 1) :
              validateRoute(routes.items[i + 1], arrayName, i) # NoThrow}
  IN IF S = {} THEN NoThrow
     ELSE LET i == CHOOSE k \in S : \A j \in S : k >= j
          IN validateRoute(routes.items[i + 1], arrayName, i)

\* #validateRoutes(routes, arrayName)
validateRoutes(routes, arrayName) == validateRoutesFrom(routes, arrayName, 0)

CallbackNames == <<"runService", "createService", "loadSession", "mapError", "extractInput">>

\* a #validateConfig without the loadSession-required check
validateConfigValuesNoSession(c) ==
  FirstThrow(
    <<IF ~Truthy(c.runService) /\ ~Truthy(c.createService)
      THEN ConfigError("Either runService or createService is required")
      ELSE NoThrow>>
    \o [k \in 1..Len(CallbackNames) |->
          validateFunction(c[CallbackNames[k]], "none", -1, CallbackNames[k])]
    \o <<IF Truthy(c.services) THEN validateRoutes(c.services, "services") ELSE NoThrow,
         IF Truthy(c.unauthenticatedServices)
         THEN validateRoutes(c.unauthenticatedServices, "unauthenticatedServices")
         ELSE NoThrow>>)

\* #validateConfig(config) on the values the caller passed
validateConfigValues(c) ==
  FirstThrow(
    <<IF ~Truthy(c.runService) /\ ~Truthy(c.createService)
      THEN ConfigError("Either runService or createService is required")
      ELSE NoThrow,
      IF Truthy(c.services) /\ Len(c.services.items) > 0 /\ ~Truthy(c.loadSession)
      THEN ConfigError("loadSession is required when services are defined")
      ELSE NoThrow>>
    \o [k \in 1..Len(CallbackNames) |->
          validateFunction(c[CallbackNames[k]], "none", -1, CallbackNames[k])]
    \o <<IF Truthy(c.services) THEN validateRoutes(c.services, "services") ELSE NoThrow,
         IF Truthy(c.unauthenticatedServices)
         THEN validateRoutes(c.unauthenticatedServices, "unauthenticatedServices")
         ELSE NoThrow>>)

\* the values a caller passes for a callback of the configuration
CallbackValues ==
  {undefinedValue, functionValue, stringValue(<<"not-a-function">>), nullValue}

MethodValues ==
  {stringValue(<<"GET">>), stringValue(<<"WS">>), stringValue(<<"get">>), numberValue}

PathValues ==
  {stringValue(<<"/", "test">>), stringValue(<<"no-slash">>), stringValue(<<>>), nullValue}

ServiceValues ==
  {classValue, arrowFunction, stringValue(<<"not-a-class">>), nullValue}

OptionNames == {"middlewares", "runService", "createService", "mapError", "extractInput"}

OptionPropValues(name) ==
  IF name = "middlewares" THEN {arrayValue(<<>>), stringValue(<<"invalid">>)}
  ELSE {functionValue, stringValue(<<"invalid">>)}

\* { middlewares: ..., runService: ..., ... } with any of the properties
OptionObjects ==
  UNION {{objectValue(p) :
            p \in {f \in [K -> UNION {OptionPropValues(n) : n \in OptionNames}] :
                     \A n \in K : f[n] \in OptionPropValues(n)}} :
         K \in SUBSET OptionNames}

OptionValues ==
  {undefinedValue, nullValue, stringValue(<<"invalid">>), arrayValue(<<>>)}
    \cup OptionObjects

\* what a caller may write as one element of services
RawEntries ==
  {objectValue(NoProps)}
    \cup {arrayValue(<<m, p>>) : m \in MethodValues, p \in PathValues}
    \cup {arrayValue(<<m, p, s>>) :
            m \in MethodValues, p \in PathValues, s \in ServiceValues}
    \cup {arrayValue(<<m, p, s, o>>) :
            m \in MethodValues, p \in PathValues, s \in ServiceValues, o \in OptionValues}
    \cup {arrayValue(<<m, p, s, undefinedValue, numberValue>>) :
            m \in MethodValues, p \in PathValues, s \in ServiceValues}

GoodEntry == arrayValue(<<stringValue(<<"GET">>), stringValue(<<"/", "test">>), classValue>>)
BadEntry == arrayValue(<<stringValue(<<"get">>), stringValue(<<"/", "test">>), classValue>>)

\* services: absent, or up to MaxRoutes entries of E
RouteArrays(E) ==
  {undefinedValue} \cup UNION {{arrayValue(s) : s \in [1..n -> E]} : n \in 0..MaxRoutes}

\* the configurations the constructor is applied to: any callbacks with
\* short route arrays, and well-typed callbacks with any one entry
RawConfigs ==
  [runService : CallbackValues, createService : CallbackValues,
   loadSession : CallbackValues, mapError : CallbackValues,
   extractInput : CallbackValues,
   services : RouteArrays({GoodEntry, BadEntry}),
   unauthenticatedServices : RouteArrays({GoodEntry, BadEntry})]
  \cup
  [runService : {undefinedValue}, createService : {functionValue},
   loadSession : {functionValue}, mapError : {undefinedValue},
   extractInput : {undefinedValue},
   services : {arrayValue(<<e>>) : e \in RawEntries},
   unauthenticatedServices : {undefinedValue}]
  \cup
  [runService : {undefinedValue}, createService : {functionValue},
   loadSession : {functionValue}, mapError : {undefinedValue},
   extractInput : {undefinedValue},
   services : {undefinedValue},
   unauthenticatedServices : {arrayValue(<<GoodEntry, e>>) : e \in RawEntries}]

InitValidate ==
  /\ config \in RawConfigs
  /\ app = <<>>
  /\ built = FALSE
  /\ lastBuild = "none"
  /\ req = IdleRequest
  /\ caller = [pc |-> "new", thrown |-> NoThrow]

\* new ExpressRestApiBuilder(config)
construct ==
  /\ caller.pc = "new"
  /\ LET thrown == validateConfigValues(config)
     IN IF thrown = NoThrow
        THEN /\ app' = initializeMiddleware
             /\ caller' = [pc |-> "constructed", thrown |-> NoThrow]
        ELSE /\ app' = app
             /\ caller' = [pc |-> "threw", thrown |-> thrown]
  /\ UNCHANGED <<config, built, lastBuild, req>>

NextValidate == construct

SpecValidate == InitValidate /\ [][NextValidate]_vars

(***************************************************************************)
(* Properties of construction-time validation                              *)
(***************************************************************************)
ArrayNames == {"services", "unauthenticatedServices"}

\* the entries of a route array of the configuration, none when it is absent
EntriesOf(c, arrayName) == c[arrayName].items

\* usable with new
Constructible(value) == value.type = "function" /\ value.kind # "arrow"

\* an entry as the route rules (a) to (d) want it
WellFormedEntry(entry) ==
  /\ entry.kind = "array"
  /\ Len(entry.items) \in {3, 4}
  /\ entry.items[1].type = "string"
  /\ entry.items[1].chars \in {<<"GET">>, <<"POST">>, <<"PUT">>, <<"DELETE">>,
                               <<"PATCH">>, <<"WS">>}
  /\ entry.items[2].type = "string"
  /\ Len(entry.items[2].chars) > 0
  /\ entry.items[2].chars[1] = "/"
  /\ Constructible(entry.items[3])

\* C21: construction throws whenever some entry of services or
\* unauthenticatedServices is not an array of 3 or 4 elements, has a method
\* outside GET, POST, PUT, DELETE, PATCH, WS, a path that is not a string
\* starting with "/", or a third element that cannot be used with new; and
\* the error never blames a three-element entry that satisfies all of these
C21_RouteEntryValidation ==
  caller.pc \in {"constructed", "threw"} =>
    /\ (\E a \in ArrayNames : \E k \in 1..Len(EntriesOf(config, a)) :
          ~WellFormedEntry(EntriesOf(config, a)[k]))
         => caller.pc = "threw"
    /\ \A a \in ArrayNames : \A k \in 1..Len(EntriesOf(config, a)) :
         (/\ caller.thrown.array = a
          /\ caller.thrown.index = k - 1
          /\ EntriesOf(config, a)[k].kind = "array"
          /\ Len(EntriesOf(config, a)[k].items) = 3)
           => ~WellFormedEntry(EntriesOf(config, a)[k])

\* a plain object whose middlewares, if present, is an array and whose
\* overrides, if present, are functions
PlainOptions(options) ==
  /\ options.kind = "object"
  /\ "middlewares" \in DOMAIN options.props => options.props["middlewares"].kind = "array"
  /\ \A n \in {"runService", "createService", "mapError", "extractInput"} :
       n \in DOMAIN options.props => options.props[n].type = "function"

\* C22: construction succeeds only if the 4th element of every entry that
\* has one is a plain object with an array as middlewares (if present) and
\* functions as runService, createService, mapError, extractInput (if
\* present)
C22_OptionsValidation ==
  caller.pc = "constructed" =>
    \A a \in ArrayNames : \A k \in 1..Len(EntriesOf(config, a)) :
      Len(EntriesOf(config, a)[k].items) >= 4
        => PlainOptions(EntriesOf(config, a)[k].items[4])

\* undefined, or any non-null value whose typeof is 'object' (an array
\* too), with the same conditions on its properties
ObjectOptions(options) ==
  \/ options = undefinedValue
  \/ /\ options.type = "object"
     /\ options.kind # "null"
     /\ "middlewares" \in DOMAIN options.props => options.props["middlewares"].kind = "array"
     /\ \A n \in {"runService", "createService", "mapError", "extractInput"} :
          n \in DOMAIN options.props => options.props[n].type = "function"

\* C22 (amended): construction succeeds only if the 4th element of every
\* entry that has one is undefined or a non-null value of type 'object'
\* (arrays included) whose middlewares, if present, is an array and whose
\* four overrides, if present, are functions; every other 4th element makes
\* construction throw
C22_OptionsTypeofObject ==
  /\ caller.pc = "constructed" =>
       \A a \in ArrayNames : \A k \in 1..Len(EntriesOf(config, a)) :
         Len(EntriesOf(config, a)[k].items) >= 4
           => ObjectOptions(EntriesOf(config, a)[k].items[4])
  /\ caller.pc \in {"constructed", "threw"} =>
       ((\E a \in ArrayNames : \E k \in 1..Len(EntriesOf(config, a)) :
           /\ Len(EntriesOf(config, a)[k].items) >= 4
           /\ ~ObjectOptions(EntriesOf(config, a)[k].items[4]))
          => caller.pc = "threw")

\* construction succeeded with an array as the 4th element of an entry
C22_Witness ==
  /\ caller.pc = "constructed"
  /\ \E k \in 1..Len(EntriesOf(config, "services")) :
       /\ Len(EntriesOf(config, "services")[k].items) = 4
       /\ EntriesOf(config, "services")[k].items[4].kind = "array"

\* some callback of the configuration is present and is not a function
NotFunctions(c) ==
  {n \in {"runService", "createService", "loadSession", "mapError", "extractInput"} :
     c[n] # undefinedValue /\ c[n].type # "function"}

NeitherStrategy(c) == ~Truthy(c.runService) /\ ~Truthy(c.createService)

SessionMissing(c) == Len(EntriesOf(c, "services")) > 0 /\ ~Truthy(c.loadSession)

\* C23: construction throws 'Either runService or createService is
\* required' when neither strategy is configured; otherwise 'loadSession is
\* required when services are defined' when services is non-empty and
\* loadSession is absent; otherwise '<name> must be a function' for a
\* callback that is present and not a function; and with services absent
\* or empty it never asks for loadSession: a configuration with a strategy,
\* well-typed callbacks and well-formed three-element entries is accepted
C23_ConfigMessages ==
  caller.pc \in {"constructed", "threw"} =>
    /\ NeitherStrategy(config) =>
         /\ caller.pc = "threw"
         /\ caller.thrown.message = "Either runService or createService is required"
    /\ (~NeitherStrategy(config) /\ SessionMissing(config)) =>
         /\ caller.pc = "threw"
         /\ caller.thrown.message = "loadSession is required when services are defined"
    /\ (~NeitherStrategy(config) /\ ~SessionMissing(config) /\ NotFunctions(config) # {}) =>
         /\ caller.pc = "threw"
         /\ caller.thrown.message = "must be a function"
         /\ caller.thrown.name \in NotFunctions(config)
         /\ caller.thrown.got = config[caller.thrown.name].type
    /\ Len(EntriesOf(config, "services")) = 0 =>
         caller.thrown.message # "loadSession is required when services are defined"
    /\ (/\ ~NeitherStrategy(config)
        /\ Len(EntriesOf(config, "services")) = 0
        /\ NotFunctions(config) = {}
        /\ \A k \in 1..Len(EntriesOf(config, "unauthenticatedServices")) :
             /\ WellFormedEntry(EntriesOf(config, "unauthenticatedServices")[k])
             /\ Len(EntriesOf(config, "unauthenticatedServices")[k].items) = 3)
         => caller.pc = "constructed"

\* with services, loadSession and a strategy in place, construction threw
\* for an extractInput that is a string
C23_Witness ==
  /\ caller.pc = "threw"
  /\ caller.thrown.message = "must be a function"
  /\ caller.thrown.name = "extractInput"
  /\ caller.thrown.got = "string"
  /\ Len(EntriesOf(config, "services")) > 0
  /\ config.loadSession = functionValue

\* an entry that the loop of #validateRoutes throws for
Rejects(entry) == validateRoute(entry, "none", 0) # NoThrow

BadIndexes(c, arrayName) ==
  {i \in 0..(Len(EntriesOf(c, arrayName)) - 1) : Rejects(EntriesOf(c, arrayName)[i + 1])}

Least(S) == CHOOSE k \in S : \A j \in S : k <= j

\* C29: a violated presence, loadSession or callback type check is reported
\* whatever the route arrays hold; otherwise the error names 'services' and
\* the zero-based index of its first offending entry; otherwise it names
\* 'unauthenticatedServices' and the index of its first offending entry;
\* otherwise construction succeeds
C29_ValidationOrder ==
  caller.pc \in {"constructed", "threw"} =>
    IF NeitherStrategy(config) \/ SessionMissing(config) \/ NotFunctions(config) # {}
    THEN /\ caller.pc = "threw"
         /\ caller.thrown.array = "none"
         /\ caller.thrown.index = -1
    ELSE IF BadIndexes(config, "services") # {}
    THEN /\ caller.pc = "threw"
         /\ caller.thrown.array = "services"
         /\ caller.thrown.index = Least(BadIndexes(config, "services"))
    ELSE IF BadIndexes(config, "unauthenticatedServices") # {}
    THEN /\ caller.pc = "threw"
         /\ caller.thrown.array = "unauthenticatedServices"
         /\ caller.thrown.index = Least(BadIndexes(config, "unauthenticatedServices"))
    ELSE caller.pc = "constructed"

\* the second entry of services is reported although the first entry of
\* unauthenticatedServices is bad too
C29_Witness ==
  /\ caller.pc = "threw"
  /\ caller.thrown.array = "services"
  /\ caller.thrown.index = 1
  /\ BadIndexes(config, "unauthenticatedServices") = {0}

(***************************************************************************)
(* RestApiError construction                                               *)
(*                                                                         *)
(* SpecRestApiError applies the constructor to one (data, httpCode) pair   *)
(* and then reads the two accessors.  A number is whole + tenths / 10, or  *)
(* NaN, Infinity or -Infinity.                                             *)
(***************************************************************************)
MaxHttpCode == 700

Finite(whole, tenths) ==
  [type |-> "number", kind |-> "finite", whole |-> whole, tenths |-> tenths]

NotFinite(kind) == [type |-> "number", kind |-> kind, whole |-> 0, tenths |-> 0]

NotNumber(type, kind) == [type |-> type, kind |-> kind, whole |-> 0, tenths |-> 0]

\* the second argument absent
Omitted == NotNumber("undefined", "undefined")

HttpCodeValues ==
  {Finite(w, t) : w \in -1..MaxHttpCode, t \in {0, 5}}
    \cup {NotFinite("NaN"), NotFinite("Infinity"), NotFinite("-Infinity")}
    \cup {NotNumber("string", "string"), NotNumber("object", "null"), Omitted}

DataValues ==
  {[code |-> "TEST_ERROR", message |-> "Test error"],
   [code |-> "TEST_ERROR", message |-> NoField]}

\* Number.isInteger(n)
isInteger(n) == n.type = "number" /\ n.kind = "finite" /\ n.tenths = 0

\* n < k and n > k for an integer k; every comparison with NaN is false
LessThan(n, k) == n.kind = "-Infinity" \/ (n.kind = "finite" /\ n.whole < k)

GreaterThan(n, k) ==
  \/ n.kind = "Infinity"
  \/ n.kind = "finite" /\ (n.whole > k \/ (n.whole = k /\ n.tenths > 0))

NotConstructed == [pc |-> "threw", error |-> NoError]

\* a constructor that puts no upper limit on httpCode
newRestApiErrorNoUpperLimit(data, httpCodeArgument) ==
  LET httpCode == IF httpCodeArgument = Omitted THEN Finite(500, 0) ELSE httpCodeArgument
  IN IF \/ httpCode.type # "number"
        \/ ~isInteger(httpCode)
        \/ LessThan(httpCode, 100)
     THEN NotConstructed
     ELSE [pc |-> "constructed", error |-> RestApiError(data, httpCode.whole)]

\* new RestApiError(data, httpCode = 500)
newRestApiError(data, httpCodeArgument) ==
  LET httpCode == IF httpCodeArgument = Omitted THEN Finite(500, 0) ELSE httpCodeArgument
  IN IF \/ httpCode.type # "number"
        \/ ~isInteger(httpCode)
        \/ LessThan(httpCode, 100)
        \/ GreaterThan(httpCode, 599)
     THEN NotConstructed
     ELSE [pc |-> "constructed", error |-> RestApiError(data, httpCode.whole)]

\* get data() and get httpCode()
getData(error) == error.data
getHttpCode(error) == error.httpCode

NothingRead == [data |-> NoData, httpCode |-> 0]

InitRestApiError ==
  /\ config = [runService |-> FALSE, createService |-> TRUE, mapError |-> FALSE,
               extractInput |-> FALSE, loadSession |-> FALSE,
               services |-> <<>>, unauthenticatedServices |-> <<>>]
  /\ app = initializeMiddleware
  /\ built = FALSE
  /\ lastBuild = "none"
  /\ req = IdleRequest
  /\ \E data \in DataValues : \E httpCode \in HttpCodeValues :
       caller = [pc |-> "new", data |-> data, httpCode |-> httpCode,
                 error |-> NoError, read |-> NothingRead]

\* new RestApiError(data, httpCode) returns or throws
constructRestApiError ==
  /\ caller.pc = "new"
  /\ LET made == newRestApiError(caller.data, caller.httpCode)
     IN caller' = [caller EXCEPT !.pc = made.pc, !.error = made.error]
  /\ UNCHANGED <<config, app, built, lastBuild, req>>

\* error.data and error.httpCode are read
readAccessors ==
  /\ caller.pc = "constructed"
  /\ caller' = [caller EXCEPT !.pc = "read",
                              !.read = [data |-> getData(caller.error),
                                        httpCode |-> getHttpCode(caller.error)]]
  /\ UNCHANGED <<config, app, built, lastBuild, req>>

NextRestApiError == constructRestApiError \/ readAccessors

SpecRestApiError == InitRestApiError /\ [][NextRestApiError]_vars

\* an integer from 100 to 599
ValidHttpCode(n) ==
  /\ n.type = "number"
  /\ n.kind = "finite"
  /\ n.tenths = 0
  /\ n.whole >= 100
  /\ n.whole <= 599

\* C24: new RestApiError(data, httpCode) throws exactly when httpCode is
\* given and is not an integer from 100 to 599; an omitted httpCode reads
\* back as 500, and the accessors return the data and httpCode given
C24_HttpCodeRange ==
  /\ caller.pc \in {"constructed", "threw", "read"} =>
       (caller.pc = "threw" <=>
          (caller.httpCode # Omitted /\ ~ValidHttpCode(caller.httpCode)))
  /\ caller.pc = "read" =>
       /\ caller.read.data = caller.data
       /\ caller.read.httpCode =
            IF caller.httpCode = Omitted THEN 500 ELSE caller.httpCode.whole

\* 599 was accepted and read back
C24_Witness ==
  /\ caller.pc = "read"
  /\ caller.httpCode = Finite(599, 0)
  /\ caller.read.httpCode = 599
  /\ caller.read.data = caller.data

(***************************************************************************)
(* The middleware wrappers                                                 *)
(*                                                                         *)
(* SpecMiddleware invokes wrappedJsonParser or the middleware returned by  *)
(* skipForWebSocket(m) on one request.  A header value is a sequence of    *)
(* pieces of text; calls lists who called what with which arguments.       *)
(***************************************************************************)
ContentTypes ==
  {<<>>,
   <<"application/json">>,
   <<"text/plain">>,
   <<"multipart/", "form-data">>,
   <<"multipart/", "form-data", "; boundary=x">>,
   <<"multipart/", "mixed", "; boundary=x">>,
   <<"multipart/", "related">>,
   <<"Multipart/", "Form-Data", "; boundary=x">>}

\* req.headers.upgrade; Undefined when the header is absent
UpgradeValues == {Undefined, "websocket", "WebSocket", "h2c"}

\* haystack.includes(needle)
includes(haystack, needle) ==
  \E i \in 1..(Len(haystack) - Len(needle) + 1) :
    SubSeq(haystack, i, i + Len(needle) - 1) = needle

Invoke(by, fn, args) == [by |-> by, fn |-> fn, args |-> args]

\* a wrapper that hands every request to the JSON parser
wrappedJsonParserAlways(contentType) ==
  Invoke("wrappedJsonParser", "jsonParser", <<"req", "res", "next">>)

\* wrappedJsonParser(req, res, next), contentType being
\* req.headers['content-type'] || ''
wrappedJsonParserCall(contentType) ==
  IF includes(contentType, <<"multipart/", "form-data">>)
  THEN Invoke("wrappedJsonParser", "next", <<>>)
  ELSE Invoke("wrappedJsonParser", "jsonParser", <<"req", "res", "next">>)

\* a wrapper that skips whenever an upgrade header is there
skipForWebSocketAnyUpgrade(upgrade) ==
  IF upgrade # Undefined
  THEN Invoke("skipForWebSocket", "next", <<>>)
  ELSE Invoke("skipForWebSocket", "middleware", <<"req", "res", "next">>)

\* skipForWebSocket(middleware)(req, res, next), upgrade being
\* req.headers.upgrade
skipForWebSocketCall(upgrade) ==
  IF upgrade = "websocket"
  THEN Invoke("skipForWebSocket", "next", <<>>)
  ELSE Invoke("skipForWebSocket", "middleware", <<"req", "res", "next">>)

InitMiddleware ==
  /\ config = [runService |-> FALSE, createService |-> TRUE, mapError |-> FALSE,
               extractInput |-> FALSE, loadSession |-> FALSE,
               services |-> <<>>, unauthenticatedServices |-> <<>>]
  /\ app = initializeMiddleware
  /\ built = FALSE
  /\ lastBuild = "none"
  /\ req = IdleRequest
  /\ \E pc \in {"wrappedJsonParser", "skipForWebSocket"} :
       \E contentType \in ContentTypes : \E upgrade \in UpgradeValues :
         \E body \in {"json", "brokenJson", "form"} :
           caller = [pc |-> pc, contentType |-> contentType, upgrade |-> upgrade,
                     body |-> body, parsed |-> FALSE, calls |-> <<>>]

\* Express calls wrappedJsonParser with the request
callWrappedJsonParser ==
  /\ caller.pc = "wrappedJsonParser"
  /\ LET call == wrappedJsonParserCall(caller.contentType)
     IN caller' = [caller EXCEPT !.pc = IF call.fn = "next" THEN "passed" ELSE call.fn,
                                 !.calls = Append(@, call)]
  /\ UNCHANGED <<config, app, built, lastBuild, req>>

\* express.json() runs: it parses the body into req.body and continues,
\* continues without parsing, or passes an error
jsonParserRuns ==
  /\ caller.pc = "jsonParser"
  /\ \E out \in {"parsed", "untouched", "error"} :
       caller' = [caller EXCEPT !.pc = "passed",
                                !.parsed = (out = "parsed"),
                                !.calls = Append(@, Invoke("jsonParser", "next",
                                            IF out = "error" THEN <<"err">> ELSE <<>>))]
  /\ UNCHANGED <<config, app, built, lastBuild, req>>

\* Express calls the middleware that skipForWebSocket returned
callSkipForWebSocket ==
  /\ caller.pc = "skipForWebSocket"
  /\ LET call == skipForWebSocketCall(caller.upgrade)
     IN caller' = [caller EXCEPT !.pc = IF call.fn = "next" THEN "passed" ELSE call.fn,
                                 !.calls = Append(@, call)]
  /\ UNCHANGED <<config, app, built, lastBuild, req>>

\* the wrapped middleware runs: it continues or answers the request
middlewareRuns ==
  /\ caller.pc = "middleware"
  /\ \/ caller' = [caller EXCEPT !.pc = "passed",
                                 !.calls = Append(@, Invoke("middleware", "next", <<>>))]
     \/ caller' = [caller EXCEPT !.pc = "answered"]
  /\ UNCHANGED <<config, app, built, lastBuild, req>>

NextMiddleware ==
  \/ callWrappedJsonParser
  \/ jsonParserRuns
  \/ callSkipForWebSocket
  \/ middlewareRuns

SpecMiddleware == InitMiddleware /\ [][NextMiddleware]_vars

\* the first call of the log was made by the wrapper `by`
Acted(by) == Len(caller.calls) >= 1 /\ caller.calls[1].by = by

CallsBy(by) == {k \in 1..Len(caller.calls) : caller.calls[k].by = by}

\* a media type whose top-level type is multipart, in any letter case
MultipartFamily(contentType) ==
  Len(contentType) > 0 /\ contentType[1] \in {"multipart/", "Multipart/"}

\* C25: for a request of the multipart family wrappedJsonParser calls next
\* and nothing else, so the JSON parser never runs and the body stays as it
\* was; for every other request its one call is the JSON parser with
\* (req, res, next)
C25_MultipartFamilySkipped ==
  Acted("wrappedJsonParser") =>
    IF MultipartFamily(caller.contentType)
    THEN /\ caller.calls = <<Invoke("wrappedJsonParser", "next", <<>>)>>
         /\ ~caller.parsed
    ELSE /\ caller.calls[1] = Invoke("wrappedJsonParser", "jsonParser", <<"req", "res", "next">>)
         /\ CallsBy("wrappedJsonParser") = {1}

\* the content-type header holds the text multipart/form-data as written
HoldsFormData(contentType) ==
  \E i \in 1..Len(contentType) :
    /\ contentType[i] = "multipart/"
    /\ i < Len(contentType)
    /\ contentType[i + 1] = "form-data"

\* C25 (amended): for a request whose content-type header contains the text
\* 'multipart/form-data' wrappedJsonParser calls next and nothing else, so
\* the JSON parser never runs and the body stays as it was; for every other
\* request, other multipart types included, its one call is the JSON parser
\* with (req, res, next)
C25_FormDataSkipped ==
  Acted("wrappedJsonParser") =>
    IF HoldsFormData(caller.contentType)
    THEN /\ caller.calls = <<Invoke("wrappedJsonParser", "next", <<>>)>>
         /\ ~caller.parsed
    ELSE /\ caller.calls[1] = Invoke("wrappedJsonParser", "jsonParser", <<"req", "res", "next">>)
         /\ CallsBy("wrappedJsonParser") = {1}

\* a multipart/mixed request was handed to the JSON parser, which ran
C25_Witness ==
  /\ caller.contentType = <<"multipart/", "mixed", "; boundary=x">>
  /\ Len(caller.calls) = 2
  /\ caller.calls[1] = Invoke("wrappedJsonParser", "jsonParser", <<"req", "res", "next">>)
  /\ caller.calls[2].by = "jsonParser"

\* C26: when the upgrade header equals 'websocket' the middleware returned
\* by skipForWebSocket(m) calls next once and m is never called; otherwise
\* it calls m once with the same (req, res, next) and makes no other call,
\* so any call of next is m's own
C26_SkipForWebSocket ==
  Acted("skipForWebSocket") =>
    IF caller.upgrade = "websocket"
    THEN caller.calls = <<Invoke("skipForWebSocket", "next", <<>>)>>
    ELSE /\ caller.calls[1] = Invoke("skipForWebSocket", "middleware", <<"req", "res", "next">>)
         /\ CallsBy("skipForWebSocket") = {1}
         /\ \A k \in 2..Len(caller.calls) : caller.calls[k].by = "middleware"

\* an h2c upgrade request went through m, which continued
C26_Witness ==
  /\ caller.upgrade = "h2c"
  /\ caller.pc = "passed"
  /\ caller.calls = <<Invoke("skipForWebSocket", "middleware", <<"req", "res", "next">>),
                      Invoke("middleware", "next", <<>>)>>

(***************************************************************************)
(* Properties of error mapping                                             *)
(***************************************************************************)
\* the mapError that applies to a failure of the route's handler: none when
\* a runService executes the route, else the route's own, else the global one
HandlerMapError(route) ==
  IF Preferred(route, "runService") # "none" THEN "none"
  ELSE Preferred(route, "mapError")

\* C27: when loadSession fails for an HTTP request, the mapError consulted
\* is the one that applies to failures of the requested route's handler: it
\* is called once, at that level, or not at all when there is none
C27_SessionFailureMapping ==
  (req.transport = "http" /\ req.thrownBy = "loadSession") =>
    LET level == HandlerMapError(RouteOf(req))
        maps == CallIndexes(req, "mapError")
    IN IF level = "none" THEN maps = {}
       ELSE /\ Cardinality(maps) = 1
            /\ \A k \in maps : req.calls[k].level = level

\* C30: while a request or connection to a declared route is served,
\* mapError is called at most once, and its argument is the value that was
\* originally thrown
C30_MapErrorOnce ==
  Declared(req) =>
    /\ Cardinality(CallIndexes(req, "mapError")) <= 1
    /\ \A k \in CallIndexes(req, "mapError") : req.calls[k].arg = req.thrown

(***************************************************************************)
(* Requests in flight together                                             *)
(*                                                                         *)
(* SpecConcurrent serves up to MaxInFlight HTTP requests at once: req maps *)
(* each request to its own record, and a step runs the session guard or    *)
(* routeHandler of one request up to its next await.  session is the       *)
(* property the guard sets on the request object, loaded is what           *)
(* loadSession resolved to for that request, and context is the            *)
(* RequestContext #executeService built for it.                            *)
(***************************************************************************)
MaxInFlight == 2

RequestIds == 1..MaxInFlight

NoRequestContext == [request |-> 0, session |-> Undefined]

IdleInFlight ==
  [pc |-> "idle", group |-> "none", session |-> Undefined, loaded |-> Undefined,
   context |-> NoRequestContext, outcome |-> "none"]

\* a context that takes the session from whichever request holds one
contextOfAnyRequest(requests, i) ==
  [request |-> i,
   session |-> IF \E j \in DOMAIN requests : requests[j].session # Undefined
               THEN requests[CHOOSE j \in DOMAIN requests :
                               requests[j].session # Undefined].session
               ELSE Undefined]

\* routeHandler and #executeService: { request: req, session: req.session }
contextOf(requests, i) == [request |-> i, session |-> requests[i].session]

InitConcurrent ==
  /\ config \in {c \in Configs :
                   /\ validateConfig(c) = "ok"
                   /\ c.loadSession /\ ~c.mapError /\ ~c.extractInput
                   /\ c.services = RouteTable
                   /\ c.unauthenticatedServices = RouteTable}
  /\ app = initializeMiddleware \o registerRoutes(config) \o <<Layer("errorHandler", "app")>>
  /\ built = TRUE
  /\ lastBuild = "none"
  /\ req = [i \in RequestIds |-> IdleInFlight]
  /\ caller = NoCall

\* request i arrives for a route of one of the two routers
arriveInFlight(i) ==
  /\ req[i].pc = "idle"
  /\ \E group \in {"auth", "unauth"} :
       req' = [req EXCEPT ![i].group = group,
                          ![i].pc = IF group = "auth" THEN "sessionGuard"
                                    ELSE "routeHandler"]
  /\ UNCHANGED <<caller, config, app, built, lastBuild>>

\* the session guard of request i calls loadSession(req)
sessionGuardInFlight(i) ==
  /\ req[i].pc = "sessionGuard"
  /\ req' = [req EXCEPT ![i].pc = "sessionGuardAwait"]
  /\ UNCHANGED <<caller, config, app, built, lastBuild>>

\* loadSession settles for request i: req.session = session; next(), or
\* the error is rendered
sessionGuardSettleInFlight(i) ==
  /\ req[i].pc = "sessionGuardAwait"
  /\ \/ \E s \in Sessions :
          req' = [req EXCEPT ![i].session = s, ![i].loaded = s,
                             ![i].pc = "routeHandler"]
     \/ req' = [req EXCEPT ![i].pc = "done", ![i].outcome = "error"]
  /\ UNCHANGED <<caller, config, app, built, lastBuild>>

\* routeHandler of request i calls #executeService, which builds the
\* context and runs up to its await
routeHandlerInFlight(i) ==
  /\ req[i].pc = "routeHandler"
  /\ req' = [req EXCEPT ![i].context = contextOf(req, i),
                        ![i].pc = IF Resolve(NoOptions, "runService") # "none"
                                  THEN "awaitRunService" ELSE "awaitRun"]
  /\ UNCHANGED <<caller, config, app, built, lastBuild>>

\* runService or run() settles for request i and the answer is sent
settleInFlight(i) ==
  /\ req[i].pc \in {"awaitRunService", "awaitRun"}
  /\ \E outcome \in {"result", "error"} :
       req' = [req EXCEPT ![i].pc = "done", ![i].outcome = outcome]
  /\ UNCHANGED <<caller, config, app, built, lastBuild>>

\* request i is over
finishInFlight(i) ==
  /\ req[i].pc = "done"
  /\ req' = [req EXCEPT ![i] = IdleInFlight]
  /\ UNCHANGED <<caller, config, app, built, lastBuild>>

NextConcurrent ==
  \E i \in RequestIds :
    \/ arriveInFlight(i)
    \/ sessionGuardInFlight(i)
    \/ sessionGuardSettleInFlight(i)
    \/ routeHandlerInFlight(i)
    \/ settleInFlight(i)
    \/ finishInFlight(i)

SpecConcurrent == InitConcurrent /\ [][NextConcurrent]_vars

\* C28: whatever the interleaving, the context built for a request names
\* that request and carries the session loadSession resolved to for it
\* (none on an unauthenticated route), and no step of a request changes a
\* field of the builder
C28_ContextOfOwnRequest ==
  /\ [](\A i \in RequestIds :
          req[i].context # NoRequestContext =>
            /\ req[i].context.request = i
            /\ req[i].context.session = req[i].loaded
            /\ req[i].group = "unauth" => req[i].context.session = Undefined)
  /\ [][config' = config /\ app' = app /\ built' = built]_vars

\* two authenticated requests wait for run() together, each with the
\* session loaded for it
C28_Witness ==
  /\ req[1].pc \in {"awaitRun", "awaitRunService"}
  /\ req[2].pc \in {"awaitRun", "awaitRunService"}
  /\ req[1].loaded = "s1"
  /\ req[2].loaded = "s2"
  /\ req[1].context = [request |-> 1, session |-> "s1"]
  /\ req[2].context = [request |-> 2, session |-> "s2"]

====
